---- MODULE Spec2Model ----
(***************************************************************************)
(* A model of git.py: the object store (hash_object, find_object,          *)
(* read_object), the index codec (read_index, write_index, ls_files) and   *)
(* the status engine (get_status), over a small file system.               *)
(*                                                                         *)
(* Representation.  A Python bytes value is a sequence of integers 0..255; *)
(* a Python str is the sequence of its code points (all text here is       *)
(* ASCII).  A call's outcome is Ok(value) or Err(exception, message).      *)
(***************************************************************************)
EXTENDS Integers, Sequences, FiniteSets, TLC

VARIABLES
    objects,    \* .git/objects: bucket directory -> (file name -> file bytes)
    index,      \* .git/index: NoFile, or the file's bytes
    work,       \* working tree outside .git: path components -> file bytes
    last,       \* the most recent call: its name, arguments and outcome
    writes      \* how many times hash_object has called write_file

vars == <<objects, index, work, last, writes>>

\* ------------------------------------------------------------------ bounds

\* hash_object calls write_file at most this many times in one behaviour.
MaxObjects == 2

\* ------------------------------------------------------------ Python values

Ok(v) == [ok |-> TRUE, val |-> v, exc |-> "", msg |-> ""]
Err(e, m) == [ok |-> FALSE, val |-> <<>>, exc |-> e, msg |-> m]

\* What the file system holds at a path: nothing, a directory, or a file.
NoFile == [kind |-> "none", data |-> <<>>]
IsDir == [kind |-> "dir", data |-> <<>>]
File(data) == [kind |-> "file", data |-> data]

RECURSIVE SeqSum(_)
SeqSum(s) == IF s = <<>> THEN 0 ELSE Head(s) + SeqSum(Tail(s))

\* s[a:b] for 0 <= a, 0 <= b (Python slice, 0-based, end exclusive, clamped).
Slice(s, a, b) ==
    LET hi == IF b > Len(s) THEN Len(s) ELSE b
    IN  IF a >= hi THEN <<>> ELSE SubSeq(s, a + 1, hi)

\* s.startswith(p)
startswith(s, p) == Len(p) <= Len(s) /\ SubSeq(s, 1, Len(p)) = p

\* s.index(b, start): the 0-based position of the first b at or after start,
\* or -1 where Python raises ValueError.
RECURSIVE index_of(_, _, _)
index_of(s, b, start) ==
    IF start >= Len(s) THEN -1
    ELSE IF s[start + 1] = b THEN start
    ELSE index_of(s, b, start + 1)

\* str(n) / "{}".format(n) for n >= 0: the decimal digits.
RECURSIVE decimal(_)
decimal(n) ==
    IF n < 10 THEN <<48 + n>> ELSE decimal(n \div 10) \o <<48 + (n % 10)>>

\* int(s): the value of a string of decimal digits, -1 where int() raises.
RECURSIVE int_of(_, _)
int_of(s, acc) ==
    IF s = <<>> THEN acc
    ELSE IF Head(s) < 48 \/ Head(s) > 57 THEN -1
    ELSE int_of(Tail(s), acc * 10 + (Head(s) - 48))

int(s) == IF s = <<>> THEN -1 ELSE int_of(s, 0)

\* bytes.decode(): UTF-8 maps each byte below 128 to the code point of the
\* same number; a byte of 128 or more is not a character on its own (the
\* model holds no multi-byte sequences).
decode(b) ==
    IF \A i \in 1..Len(b) : b[i] < 128
        THEN Ok([i \in 1..Len(b) |-> b[i]])
        ELSE Err("UnicodeDecodeError", "")

\* str.encode(): each code point below 128 becomes the byte of that number.
encode(s) == [i \in 1..Len(s) |-> s[i] % 256]

\* str.split(): the maximal runs of non-space characters.
RECURSIVE split_from(_, _, _)
split_from(s, cur, acc) ==
    IF s = <<>> THEN (IF cur = <<>> THEN acc ELSE Append(acc, cur))
    ELSE IF Head(s) \in {32, 9, 10, 13}
         THEN split_from(Tail(s), <<>>, IF cur = <<>> THEN acc ELSE Append(acc, cur))
         ELSE split_from(Tail(s), Append(cur, Head(s)), acc)

split(s) == split_from(s, <<>>, <<>>)

\* --------------------------------------------------------- hashlib and zlib

\* hashlib.sha1(data).digest(): SHA-1 itself is outside the repository.  It
\* is represented by a deterministic 20-byte digest (a position-weighted
\* checksum of the bytes lo..hi in its first two bytes), which is
\* collision-free on the inputs modelled here.
RECURSIVE sha1_sum(_, _, _)
sha1_sum(data, lo, hi) ==
    IF lo > hi THEN 0
    ELSE IF lo = hi THEN (((7 * lo * lo + 3 * lo + 1) % 4093) * (data[lo] + 1)) % 4093
    ELSE LET mid == (lo + hi) \div 2
         IN  (sha1_sum(data, lo, mid) + sha1_sum(data, mid + 1, hi)) % 4093

sha1_digest(data) ==
    LET h == sha1_sum(data, 1, Len(data))
    IN  <<h \div 256, h % 256>> \o [i \in 1..18 |-> 0]

HexChar(n) == IF n < 10 THEN 48 + n ELSE 87 + n

\* bytes.hex() / hexdigest(): two lower-case hex characters per byte.
RECURSIVE hex(_)
hex(b) ==
    IF b = <<>> THEN <<>>
    ELSE <<HexChar(Head(b) \div 16), HexChar(Head(b) % 16)>> \o hex(Tail(b))

sha1_hexdigest(data) == hex(sha1_digest(data))

\* zlib.compress / zlib.decompress, as a stored stream: the two-byte zlib
\* header, the payload, and a two-byte Adler checksum of the payload.
adler(data) ==
    LET a == (1 + SeqSum(data)) % 65521 IN <<a \div 256, a % 256>>

compress(data) == <<120, 156>> \o data \o adler(data)

decompress(z) ==
    IF Len(z) < 4 \/ Slice(z, 0, 2) # <<120, 156>>
        THEN Err("zlib.error", "incorrect header check")
    ELSE LET body == Slice(z, 2, Len(z) - 2)
         IN  IF Slice(z, Len(z) - 2, Len(z)) # adler(body)
                 THEN Err("zlib.error", "incorrect data check")
                 ELSE Ok(body)

\* ------------------------------------------------------------- file access

\* open(path, mode) accepts a mode made of distinct characters of "rwxabt+",
\* with exactly one of r, w, x, a and not both b and t; it checks the mode
\* before it looks at the path.
valid_mode(mode) ==
    /\ \A i \in 1..Len(mode) : mode[i] \in {"r", "w", "x", "a", "b", "t", "+"}
    /\ \A i, j \in 1..Len(mode) : i # j => mode[i] # mode[j]
    /\ Cardinality({i \in 1..Len(mode) : mode[i] \in {"r", "w", "x", "a"}}) = 1
    /\ ~(\E i, j \in 1..Len(mode) : mode[i] = "b" /\ mode[j] = "t")

\* read_file(path), given what the file system holds at path.
read_file(file) ==
    IF ~valid_mode(<<"r", "r">>) THEN Err("ValueError", "invalid mode: 'rr'")
    ELSE IF file.kind = "none" THEN Err("FileNotFoundError", "")
    ELSE IF file.kind = "dir" THEN Err("IsADirectoryError", "")
    ELSE Ok(file.data)

\* write_file(path, data): what the file system holds at path afterwards.
write_file(data) ==
    IF ~valid_mode(<<"w", "b">>) THEN NoFile ELSE File(data)

\* ------------------------------------------------------------ object store

commit == <<99, 111, 109, 109, 105, 116>>
tree == <<116, 114, 101, 101>>
blob == <<98, 108, 111, 98>>

\* The names of class ObjectType.
ObjectType == {commit, tree, blob}

\* The contents the model stores: empty, with null bytes, and without.
Contents == {<<>>, <<0>>, <<104>>}

\* header + b'\x00' + data
full_data_of(data, obj_type) ==
    encode(obj_type \o <<32>> \o decimal(Len(data))) \o <<0>> \o data

\* os.path.exists(.git/objects/<dir>/<name>)
exists(objs, dir, name) == dir \in DOMAIN objs /\ name \in DOMAIN objs[dir]

\* A hash_object that forgets the "if write" test.
hash_object_ignoring_write(objs, data, obj_type, write) ==
    LET full_data == full_data_of(data, obj_type)
        sha1 == sha1_hexdigest(full_data)
        dir == Slice(sha1, 0, 2)
        name == Slice(sha1, 2, Len(sha1))
    IN  IF ~exists(objs, dir, name)
            THEN [sha1 |-> sha1, wrote |-> TRUE,
                  objects |-> (dir :> ((name :> write_file(compress(full_data)))
                                  @@ (IF dir \in DOMAIN objs THEN objs[dir] ELSE <<>>)))
                              @@ objs]
            ELSE [sha1 |-> sha1, wrote |-> FALSE, objects |-> objs]

\* A hash_object that forgets the os.path.exists test.
hash_object_always_writing(objs, data, obj_type, write) ==
    LET full_data == full_data_of(data, obj_type)
        sha1 == sha1_hexdigest(full_data)
        dir == Slice(sha1, 0, 2)
        name == Slice(sha1, 2, Len(sha1))
    IN  IF write
            THEN [sha1 |-> sha1, wrote |-> TRUE,
                  objects |-> (dir :> ((name :> write_file(compress(full_data)))
                                  @@ (IF dir \in DOMAIN objs THEN objs[dir] ELSE <<>>)))
                              @@ objs]
            ELSE [sha1 |-> sha1, wrote |-> FALSE, objects |-> objs]

\* hash_object(data, obj_type, write) on the store objs: the id returned,
\* whether write_file was called, and the store afterwards.
hash_object(objs, data, obj_type, write) ==
    LET full_data == full_data_of(data, obj_type)
        sha1 == sha1_hexdigest(full_data)
        dir == Slice(sha1, 0, 2)
        name == Slice(sha1, 2, Len(sha1))
    IN  IF write /\ ~exists(objs, dir, name)
            THEN [sha1 |-> sha1, wrote |-> TRUE,
                  objects |-> (dir :> ((name :> write_file(compress(full_data)))
                                  @@ (IF dir \in DOMAIN objs THEN objs[dir] ELSE <<>>)))
                              @@ objs]
            ELSE [sha1 |-> sha1, wrote |-> FALSE, objects |-> objs]

\* find_object(sha1_prefix): the path of the one object file the prefix names,
\* as <<bucket directory, file name>>.
find_object(objs, sha1_prefix) ==
    IF Len(sha1_prefix) < 2
        THEN Err("ValueError", "hash prefix must be 2 or more characters")
    ELSE LET obj_dir == Slice(sha1_prefix, 0, 2)
             rest == Slice(sha1_prefix, 2, Len(sha1_prefix))
         IN  IF obj_dir \notin DOMAIN objs
                 THEN Err("FileNotFoundError", "os.listdir")
             ELSE LET found == {name \in DOMAIN objs[obj_dir] : startswith(name, rest)}
                  IN  IF found = {}
                          THEN Err("ValueError", "object not found")
                      ELSE IF Cardinality(found) >= 2
                          THEN Err("ValueError", "multiple objects with prefix")
                      ELSE Ok(<<obj_dir, CHOOSE name \in found : TRUE>>)

\* read_object(sha1_prefix): (obj_type, data) of the object the prefix names.
read_object(objs, sha1_prefix) ==
    LET path == find_object(objs, sha1_prefix)
    IN  IF ~path.ok THEN path
    ELSE LET raw == read_file(objs[path.val[1]][path.val[2]])
    IN  IF ~raw.ok THEN raw
    ELSE LET full == decompress(raw.val)
    IN  IF ~full.ok THEN full
    ELSE LET full_data == full.val
             nul_index == index_of(full_data, 0, 0)
    IN  IF nul_index < 0 THEN Err("ValueError", "subsection not found")
    ELSE LET header == decode(Slice(full_data, 0, nul_index))
    IN  IF ~header.ok THEN header
    ELSE LET fields == split(header.val)
    IN  IF Len(fields) # 2 THEN Err("ValueError", "unpack")
    ELSE LET obj_type == fields[1]
             size == int(fields[2])
             data == Slice(full_data, nul_index + 1, Len(full_data))
    IN  IF size < 0 THEN Err("ValueError", "invalid literal for int()")
    ELSE IF size # Len(data) THEN Err("AssertionError", "expected size")
    ELSE Ok(<<obj_type, data>>)

\* ------------------------------------------------------------- index codec

\* struct '!L', '!H': big-endian unsigned integers of 4 and 2 bytes.
pack_L(n) == <<(n \div 16777216) % 256, (n \div 65536) % 256, (n \div 256) % 256, n % 256>>
pack_H(n) == <<(n \div 256) % 256, n % 256>>
unpack_L(b) == ((b[1] * 256 + b[2]) * 256 + b[3]) * 256 + b[4]
unpack_H(b) == b[1] * 256 + b[2]

\* struct '20s': the bytes cut or zero-padded to 20.
pack_20s(b) == [i \in 1..20 |-> IF i <= Len(b) THEN b[i] ELSE 0]

DIRC == <<68, 73, 82, 67>>

\* IndexEntry(*fields, path)
IndexEntry(f, path) ==
    [ctime_s |-> f[1], ctime_n |-> f[2], mtime_s |-> f[3], mtime_n |-> f[4],
     dev |-> f[5], ino |-> f[6], mode |-> f[7], uid |-> f[8], gid |-> f[9],
     size |-> f[10], sha1 |-> f[11], flags |-> f[12], path |-> path]

\* struct.unpack('!LLLLLLLLLL20sH', b) of 62 bytes.
unpack_fields(b) ==
    [k \in 1..12 |->
        IF k <= 10 THEN unpack_L(Slice(b, 4 * (k - 1), 4 * k))
        ELSE IF k = 11 THEN Slice(b, 40, 60)
        ELSE unpack_H(Slice(b, 60, 62))]

\* entry_len = ((62 + len(path) + 8) // 8) * 8
entry_len(path) == ((62 + Len(path) + 8) \div 8) * 8

\* The while loop of read_index from cursor i on, with the entries so far.
RECURSIVE read_entries(_, _, _)
read_entries(entry_data, i, entries) ==
    IF ~(i + 62 < Len(entry_data)) THEN Ok(entries)
    ELSE LET fields_end == i + 62
             fields == unpack_fields(Slice(entry_data, i, fields_end))
             path_end == index_of(entry_data, 0, fields_end)
    IN  IF path_end < 0 THEN Err("ValueError", "subsection not found")
    ELSE LET path == Slice(entry_data, fields_end, path_end)
             text == decode(path)
    IN  IF ~text.ok THEN text
    ELSE read_entries(entry_data, i + entry_len(path),
                      Append(entries, IndexEntry(fields, text.val)))

\* read_index(), given what the file system holds at .git/index.
read_index(file) ==
    LET raw == read_file(file)
    IN  IF ~raw.ok /\ raw.exc = "FileNotFoundError" THEN Ok(<<>>)
    ELSE IF ~raw.ok THEN raw
    ELSE LET data == raw.val
             cut == IF Len(data) > 20 THEN Len(data) - 20 ELSE 0
             digest == sha1_digest(Slice(data, 0, cut))
    IN  IF digest # Slice(data, cut, Len(data))
            THEN Err("AssertionError", "invalid index checksum")
    ELSE IF Len(Slice(data, 0, 12)) # 12 THEN Err("struct.error", "")
    ELSE LET signature == Slice(data, 0, 4)
             version == unpack_L(Slice(data, 4, 8))
             num_entries == unpack_L(Slice(data, 8, 12))
    IN  IF signature # DIRC THEN Err("AssertionError", "invalid index signature")
    ELSE IF version # 2 THEN Err("AssertionError", "unknown index version")
    ELSE LET entries == read_entries(Slice(data, 12, cut), 0, <<>>)
    IN  IF ~entries.ok THEN entries
    ELSE IF Len(entries.val) # num_entries THEN Err("AssertionError", "")
    ELSE entries

\* entry_head of write_index: struct.pack('!LLLLLLLLLL20sH', ...).
entry_head(entry) ==
    pack_L(entry.ctime_s) \o pack_L(entry.ctime_n) \o pack_L(entry.mtime_s)
    \o pack_L(entry.mtime_n) \o pack_L(entry.dev) \o pack_L(entry.ino)
    \o pack_L(entry.mode) \o pack_L(entry.uid) \o pack_L(entry.gid)
    \o pack_L(entry.size) \o pack_20s(entry.sha1) \o pack_H(entry.flags)

\* length = ((62 + len(path) + 8) // 8) * 8
packed_length(path) == ((62 + Len(path) + 8) \div 8) * 8

\* One packed entry: the fixed block, the path, and null bytes up to length.
packed_entry(entry) ==
    LET path == encode(entry.path)
    IN  entry_head(entry) \o path
        \o [i \in 1..(packed_length(path) - 62 - Len(path)) |-> 0]

RECURSIVE packed_entries(_)
packed_entries(entries) ==
    IF entries = <<>> THEN <<>>
    ELSE packed_entry(Head(entries)) \o packed_entries(Tail(entries))

\* The index file write_index produces: header, packed entries, checksum.
serialize(entries) ==
    LET all_data == DIRC \o pack_L(2) \o pack_L(Len(entries)) \o packed_entries(entries)
    IN  all_data \o sha1_digest(all_data)

\* "{:6o}".format(n): the octal digits, right-aligned in 6 columns.
RECURSIVE octal(_)
octal(n) == IF n < 8 THEN <<48 + n>> ELSE octal(n \div 8) \o <<48 + (n % 8)>>

format_6o(n) ==
    LET d == octal(n)
    IN  [i \in 1..(IF Len(d) < 6 THEN 6 - Len(d) ELSE 0) |-> 32] \o d

\* stage = (entry.flags >> 12) & 3
stage_of(flags) == (flags \div 4096) % 4

\* The line ls_files prints for an entry, as its fields.
ls_line(entry, details) ==
    IF details
        THEN [mode |-> format_6o(entry.mode), sha1 |-> hex(entry.sha1),
              stage |-> decimal(stage_of(entry.flags)), path |-> entry.path]
        ELSE [mode |-> <<>>, sha1 |-> <<>>, stage |-> <<>>, path |-> entry.path]

\* ls_files(details): the lines printed, or the exception raised.
ls_files(file, details) ==
    LET entries == read_index(file)
    IN  IF ~entries.ok THEN entries
        ELSE Ok([i \in 1..Len(entries.val) |-> ls_line(entries.val[i], details)])

\* ------------------------------------------------------------ status engine

\* os.path.join(root, file)
join(root, file) == root \o <<47>> \o file

\* path.replace("\\", "/")
replace_backslash(path) == [i \in 1..Len(path) |-> IF path[i] = 92 THEN 47 ELSE path[i]]

\* The path get_status records for a walked file.
walked_path(root, file) ==
    LET path == replace_backslash(join(root, file))
    IN  IF startswith(path, <<46, 47>>) THEN Slice(path, 0, 2) ELSE path

\* The first (root, dirs, files) that os.walk(".") yields.  The body of the
\* for loop of get_status returns in its first iteration, so no later
\* triple of the walk is consumed.
walk_first(wt) ==
    [root |-> <<46>>,
     dirs |-> {<<46, 103, 105, 116>>} \cup {p[1] : p \in {q \in DOMAIN wt : Len(q) > 1}},
     files |-> {p[1] : p \in {q \in DOMAIN wt : Len(q) = 1}}]

\* The components of a relative path, without empty and "." components.
RECURSIVE components(_, _, _)
components(path, cur, acc) ==
    LET keep == IF cur = <<>> \/ cur = <<46>> THEN acc ELSE Append(acc, cur)
    IN  IF path = <<>> THEN keep
        ELSE IF Head(path) = 47 THEN components(Tail(path), <<>>, keep)
        ELSE components(Tail(path), Append(cur, Head(path)), acc)

\* What the working tree holds at a relative path.
lookup(wt, path) ==
    LET c == components(path, <<>>, <<>>)
    IN  IF c \in DOMAIN wt THEN File(wt[c])
        ELSE IF \E q \in DOMAIN wt : Len(q) > Len(c) /\ SubSeq(q, 1, Len(c)) = c THEN IsDir
        ELSE IF c = <<>> THEN IsDir
        ELSE NoFile

\* a < b for strings, by code point and then by length.
RECURSIVE less(_, _)
less(a, b) ==
    IF b = <<>> THEN FALSE
    ELSE IF a = <<>> THEN TRUE
    ELSE IF Head(a) # Head(b) THEN Head(a) < Head(b)
    ELSE less(Tail(a), Tail(b))

\* sorted(S) for a set of strings.
RECURSIVE sorted(_)
sorted(S) ==
    IF S = {} THEN <<>>
    ELSE LET least == CHOOSE x \in S : \A y \in S \ {x} : less(x, y)
         IN  <<least>> \o sorted(S \ {least})

\* get_status(): (changed, new, deleted), or the exception raised.
get_status(wt, file, objs) ==
    LET first == walk_first(wt)
        dirs == {d \in first.dirs : d # <<46, 103, 105, 116>>}
        paths == {walked_path(first.root, f) : f \in first.files}
        entries == read_index(file)
    IN  IF ~entries.ok THEN entries
    ELSE LET es == entries.val
             entry_paths == {es[i].path : i \in 1..Len(es)}
             entries_by_path == [p \in entry_paths |->
                 es[CHOOSE i \in 1..Len(es) :
                     es[i].path = p /\ \A j \in 1..Len(es) : es[j].path = p => j <= i]]
             both == paths \cap entry_paths
             live == [p \in both |-> read_file(lookup(wt, p))]
    IN  IF \E p \in both : ~live[p].ok
            THEN live[CHOOSE p \in both : ~live[p].ok]
    ELSE LET changed == {p \in both :
                 hash_object(objs, live[p].val, blob, FALSE).sha1
                     # hex(entries_by_path[p].sha1)}
         IN  Ok(<<sorted(changed), sorted(paths \ entry_paths),
                  sorted(entry_paths \ paths)>>)

\* -------------------------------------------------------------- the inputs

\* An index entry for a tracked blob.
Entry(path, content, flags) ==
    IndexEntry(<<1, 0, 1, 0, 2049, 7, 33188, 1000, 1000, Len(content),
                 sha1_digest(full_data_of(content, blob)), flags>>, path)

\* Paths of 1, 7, 8 and 9 characters: "a", "d/b.txt", "a.tar.gz", "README.md";
\* flags with the stage bits and the two bits above them set differently.
e1 == Entry(<<97>>, <<104>>, 1)
e7 == Entry(<<100, 47, 98, 46, 116, 120, 116>>, <<0>>, 4096 + 7)
e8 == Entry(<<97, 46, 116, 97, 114, 46, 103, 122>>, <<>>, 16384 + 8)
e9 == Entry(<<82, 69, 65, 68, 77, 69, 46, 109, 100>>, <<104>>, 49152 + 8192 + 9)

IndexLists == {<<>>, <<e1>>, <<e1, e7>>, <<e7, e8, e9>>}

\* A file with the byte at position pos (1-based) changed.
flip(f, pos) == [f EXCEPT ![pos] = (@ + 1) % 256]

\* An index file whose checksum covers ext, appended after the entries.
with_extension(entries, ext) ==
    LET f == serialize(entries)
        all_data == Slice(f, 0, Len(f) - 20) \o ext
    IN  all_data \o sha1_digest(all_data)

\* Index files another program may leave at .git/index: a serialized index
\* with one byte changed (in the signature, the version, the entry count, just
\* after the header, just before the checksum, in the checksum), and one
\* with an extension of 8 and of 64 bytes after its entries.
ExternalIndexFiles ==
    {flip(serialize(es), pos) : es \in IndexLists, pos \in {1, 8, 12, 13}}
    \cup {flip(serialize(es), Len(serialize(es)) - k) : es \in IndexLists, k \in {0, 20}}
    \cup {with_extension(<<e1>>, [i \in 1..n |-> 0]) : n \in {8, 64}}

\* Working trees: files "a" and "b" at the top and "d/b.txt" below it.
Trees ==
    {<<>>,
     (<<<<97>>>> :> <<104>>),
     (<<<<97>>>> :> <<0>>) @@ (<<<<98>>>> :> <<104>>),
     (<<<<97>>>> :> <<104>>) @@ (<<<<100>>, <<98, 46, 116, 120, 116>>>> :> <<0>>)}

\* The ids of the objects the model can store, and the prefixes asked for:
\* of 0, 1, 2, 3 and all 40 characters.
ObjectIds == {sha1_hexdigest(full_data_of(c, k)) : c \in Contents, k \in ObjectType}
Prefixes == {Slice(id, 0, n) : id \in ObjectIds, n \in {0, 1, 2, 3, 40}}

\* ------------------------------------------------------------- the actions

Call(op, args, result, wrote) ==
    [op |-> op, args |-> args, result |-> result, wrote |-> wrote]

\* init(repo): an empty object store, no index, an empty working tree.
Init ==
    /\ objects = <<>>
    /\ index = NoFile
    /\ work = <<>>
    /\ last = Call("init", <<>>, Ok(<<>>), FALSE)
    /\ writes = 0

HashObject(data, obj_type, write) ==
    LET r == hash_object(objects, data, obj_type, write)
    IN  /\ r.wrote => writes < MaxObjects
        /\ objects' = r.objects
        /\ writes' = IF r.wrote THEN writes + 1 ELSE writes
        /\ last' = Call("hash_object", <<data, obj_type, write>>, Ok(r.sha1), r.wrote)
        /\ UNCHANGED <<index, work>>

FindObject(sha1_prefix) ==
    /\ last' = Call("find_object", <<sha1_prefix>>, find_object(objects, sha1_prefix), FALSE)
    /\ UNCHANGED <<objects, index, work, writes>>

ReadObject(sha1_prefix) ==
    /\ last' = Call("read_object", <<sha1_prefix>>, read_object(objects, sha1_prefix), FALSE)
    /\ UNCHANGED <<objects, index, work, writes>>

ReadIndex ==
    /\ last' = Call("read_index", <<>>, read_index(index), FALSE)
    /\ UNCHANGED <<objects, index, work, writes>>

LsFiles(details) ==
    /\ last' = Call("ls_files", <<details>>, ls_files(index, details), FALSE)
    /\ UNCHANGED <<objects, index, work, writes>>

GetStatus ==
    /\ last' = Call("get_status", <<>>, get_status(work, index, objects), FALSE)
    /\ UNCHANGED <<objects, index, work, writes>>

WriteIndex(entries) ==
    /\ index' = write_file(serialize(entries))
    /\ last' = Call("write_index", <<entries>>, Ok(<<>>), TRUE)
    /\ UNCHANGED <<objects, work, writes>>

\* Another program replaces .git/index.
ExternalIndex(f) ==
    /\ index' = File(f)
    /\ last' = Call("external", <<>>, Ok(<<>>), FALSE)
    /\ UNCHANGED <<objects, work, writes>>

\* The user edits the working tree.
EditWorkTree(t) ==
    /\ work' = t
    /\ work' # work
    /\ last' = Call("external", <<>>, Ok(<<>>), FALSE)
    /\ UNCHANGED <<objects, index, writes>>

\* The operations on the object store.
NextStore ==
    \/ \E data \in Contents, obj_type \in ObjectType, write \in BOOLEAN :
           HashObject(data, obj_type, write)
    \/ \E sha1_prefix \in Prefixes : FindObject(sha1_prefix)
    \/ \E sha1_prefix \in Prefixes : ReadObject(sha1_prefix)

\* The operations on the index and the working tree.
NextIndex ==
    \/ ReadIndex
    \/ \E details \in BOOLEAN : LsFiles(details)
    \/ GetStatus
    \/ \E entries \in IndexLists : WriteIndex(entries)
    \/ \E f \in ExternalIndexFiles : ExternalIndex(f)
    \/ \E t \in Trees : EditWorkTree(t)

Next == NextStore \/ NextIndex

Spec == Init /\ [][Next]_vars

\* The store operations leave the index and the working tree alone, and the
\* index operations leave the store alone: each half is checked on its own.
StoreSpec == Init /\ [][NextStore]_vars
IndexSpec == Init /\ [][NextIndex]_vars

\* --------------------------------------------------------------- the claims

\* The ids of the object files in the store.
StoredIds(objs) == UNION {{d \o n : n \in DOMAIN objs[d]} : d \in DOMAIN objs}

\* The id of the object of content c and kind k.
IdOf(c, k) == sha1_hexdigest(full_data_of(c, k))

\* C1: two successive hash_object calls with the same data and type, both
\* with write=True, return the same id, and write_file is called in at most
\* one of them; and however the calls are interleaved, write_file has been
\* called once for each object file in the store, never twice for one id.
C1_HashObjectIdempotent ==
    [][/\ (/\ last.op = "hash_object" /\ last'.op = "hash_object"
           /\ last.args = last'.args /\ last.args[3])
          => (last'.result = last.result /\ ~(last.wrote /\ last'.wrote))
       /\ writes' = Cardinality(StoredIds(objects'))]_vars

\* C1's case: a hash_object call with write=True that found its object in
\* the store, put there by an earlier call with the same data and type.
C1_SecondCallSeen ==
    /\ last.op = "hash_object" /\ last.args[3] /\ ~last.wrote
    /\ last.result.val \in StoredIds(objects)
    /\ last.result.val = IdOf(last.args[1], last.args[2])

\* C2: no step removes an object file or changes its bytes, and a
\* hash_object call with write=False leaves the store as it was.
C2_WriteOnce ==
    [][/\ \A d \in DOMAIN objects :
            /\ d \in DOMAIN objects'
            /\ \A n \in DOMAIN objects[d] :
                   n \in DOMAIN objects'[d] /\ objects'[d][n] = objects[d][n]
       /\ (last'.op = "hash_object" /\ ~last'.args[3]) => objects' = objects]_vars

\* C2's case: a call wrote a new object file into a bucket directory that
\* already held another object, which is still there.
C2_SecondObjectInBucket ==
    /\ last.op = "hash_object" /\ last.wrote
    /\ \E d \in DOMAIN objects : Cardinality(DOMAIN objects[d]) >= 2

\* C3: find_object ends in one of four ways, decided by the prefix's length
\* and by how many stored ids start with it: under 2 characters, "hash prefix
\* must be 2 or more characters"; no id, "object not found" (also when no
\* stored id shares its first two characters); two or more, "multiple
\* objects"; exactly one, the path of that object.
C3_FourOutcomes ==
    last.op = "find_object" =>
        LET prefix == last.args[1]
            matching == {id \in StoredIds(objects) : startswith(id, prefix)}
        IN  IF Len(prefix) < 2
                THEN last.result = Err("ValueError", "hash prefix must be 2 or more characters")
            ELSE IF matching = {}
                THEN last.result = Err("ValueError", "object not found")
            ELSE IF Cardinality(matching) >= 2
                THEN last.result = Err("ValueError", "multiple objects with prefix")
            ELSE \E id \in matching :
                     last.result = Ok(<<Slice(id, 0, 2), Slice(id, 2, Len(id))>>)

\* C4: read_object of the id that hash_object returned for (data, obj_type),
\* once that object is stored, returns (obj_type, data).
C4_ObjectRoundTrip ==
    last.op = "read_object" =>
        \A c \in Contents, k \in ObjectType :
            (last.args[1] = IdOf(c, k) /\ IdOf(c, k) \in StoredIds(objects))
                => last.result = Ok(<<k, c>>)

\* C5: read_index of the file serialized from a list of entries returns that
\* list, in order.
C5_IndexRoundTrip ==
    last.op = "read_index" =>
        \A es \in IndexLists :
            index = File(serialize(es)) => last.result = Ok(es)

\* f is g with exactly one byte changed.
OneByteChanged(f, g) ==
    /\ Len(f) = Len(g)
    /\ Cardinality({i \in 1..Len(f) : f[i] # g[i]}) = 1

\* C6: read_index of a serialized index with one byte changed fails with
\* "invalid index checksum".
C6_ChecksumEnforced ==
    (/\ last.op = "read_index" /\ index.kind = "file"
     /\ \E es \in IndexLists : OneByteChanged(index.data, serialize(es)))
        => last.result = Err("AssertionError", "invalid index checksum")

\* C7: read_index with no index file returns the empty list.
C7_MissingIndexIsEmpty ==
    (last.op = "read_index" /\ index = NoFile) => last.result = Ok(<<>>)

\* The path of a working-tree file relative to the root: its components
\* joined by "/".
RECURSIVE RelativePath(_)
RelativePath(c) ==
    IF Len(c) = 1 THEN c[1] ELSE c[1] \o <<47>> \o RelativePath(Tail(c))

\* C8: with the index serialized from entries es (or absent, es empty),
\* get_status returns the sorted lists of: the tracked working files whose
\* blob hash differs from the entry's sha1 (changed), the working files that
\* are not tracked (new), and the tracked paths that are no working file
\* (deleted), over the files of the working tree at every depth.
C8_StatusClassification ==
    last.op = "get_status" =>
        \A es \in IndexLists :
            (index = File(serialize(es)) \/ (index = NoFile /\ es = <<>>)) =>
                LET working == {RelativePath(c) : c \in DOMAIN work}
                    content == [p \in working |->
                        work[CHOOSE c \in DOMAIN work : RelativePath(c) = p]]
                    tracked == {es[i].path : i \in 1..Len(es)}
                    entry == [p \in tracked |-> es[CHOOSE i \in 1..Len(es) : es[i].path = p]]
                    changed == {p \in working \cap tracked :
                                    IdOf(content[p], blob) # hex(entry[p].sha1)}
                IN  last.result = Ok(<<sorted(changed), sorted(working \ tracked),
                                       sorted(tracked \ working)>>)

\* C9: read_index of a file that holds the entries es, then any further
\* bytes, then a checksum of all of it, returns exactly es: as many entries as
\* the header declares.
C9_StopsAtDeclaredCount ==
    last.op = "read_index" =>
        \A es \in IndexLists, n \in {0, 8, 64} :
            index = File(with_extension(es, [i \in 1..n |-> 0]))
                => last.result = Ok(es)

\* C10: ls_files(details=True) on the index serialized from es shows, for
\* each entry, the stage (flags >> 14) & 3.
C10_StageIsTopTwoBits ==
    (last.op = "ls_files" /\ last.args[1]) =>
        \A es \in IndexLists :
            index = File(serialize(es)) =>
                /\ last.result.ok
                /\ Len(last.result.val) = Len(es)
                /\ \A i \in 1..Len(es) :
                       last.result.val[i].stage = decimal((es[i].flags \div 16384) % 4)

====
